---- MODULE Spec2Model ----
(***************************************************************************)
(* Model of the multi-database MCP server: src/server.py                    *)
(* (MultiDatabaseMCPServer) and src/db_adapters.py (the adapters and        *)
(* get_adapter).  The orchestration layer is single-threaded cooperative    *)
(* (asyncio): a task runs from one suspension point to the next without     *)
(* interleaving, and the suspension points are the awaits of                *)
(* adapter.connect, the adapter's query calls and adapter.close.  One       *)
(* action of the model is one such run.                                     *)
(***************************************************************************)
EXTENDS Integers, Sequences, FiniteSets, TLC

\* ------------------------------------------------------------------ bounds
MaxTasks == 3      \* task slots: tool invocations, gather children, cleanup calls
MaxFan == 2        \* longest database_names list given to query_multiple_databases
MaxFileChanges == 1 \* changes of the configuration file
MaxSections == 2    \* top-level keys of a generated configuration document
MaxEntries == 2     \* logical names in one section of a generated document
MaxInFlight == 2    \* table operations in flight at a time
MaxCallers == 2     \* coroutines inside adapter methods at a time
MaxAcquire == 6     \* calls of _get_connection on one pool object

\* ------------------------------------------------------------------ data
\* logical connection names that occur in the configuration documents
Names == {"db1", "db2"}

NoSchema == "<None>"       \* Python None for the optional schema argument
NoName == "<none>"

Tasks == 1..MaxTasks

\* str.lower() on the backend-type tokens that occur in the documents
lower(s) ==
  CASE s = "PG" -> "pg"
    [] s = "PostgreSQL" -> "postgresql"
    [] s = "SQLite3" -> "sqlite3"
    [] s = "MSSQL" -> "mssql"
    [] s = "Oracle" -> "oracle"
    [] s = "MariaDB" -> "mariadb"
    [] s = "SQL Server" -> "sql server"
    [] s = "Sqlite" -> "sqlite"
    [] OTHER -> s

\* src/server.py:222
known_types == <<"postgresql", "postgres", "pg", "mysql", "mariadb",
                 "sqlserver", "mssql", "sql server", "sqlite", "sqlite3">>

SeqRange(s) == {s[i] : i \in 1..Len(s)}

\* ---- ordered dictionaries (Python dict: insertion order, keys unique) ----
\* A dict is a sequence of records that all have a field "name" (the key).
Keys(d) == [i \in 1..Len(d) |-> d[i].name]
KeySet(d) == {d[i].name : i \in 1..Len(d)}
Has(d, k) == \E i \in 1..Len(d) : d[i].name = k
Get(d, k) == d[CHOOSE i \in 1..Len(d) : d[i].name = k]
\* d[k] = v: an existing key keeps its position, a new key is appended
Put(d, e) ==
  IF Has(d, e.name)
    THEN [i \in 1..Len(d) |-> IF d[i].name = e.name THEN e ELSE d[i]]
    ELSE Append(d, e)

\* ---- exceptions and messages --------------------------------------------
Msg(exc, what, arg, avail) == [exc |-> exc, what |-> what, arg |-> arg, avail |-> avail]
NoMsg == Msg("", "", "", <<>>)

\* ---- configuration documents (the contents of DB_CONFIG_PATH) ------------
Entry(n, database) == [name |-> n, isDict |-> TRUE, database |-> database]
Section(k, conns) == [key |-> k, isDict |-> TRUE, conns |-> conns]
BadSection(k) == [key |-> k, isDict |-> FALSE, conns |-> <<>>]
\* a logical name whose value is a list or a scalar
BadEntry(n) == [name |-> n, isDict |-> FALSE, database |-> ""]

DocBoth == <<Section("PG", <<Entry("db1", "d1")>>), Section("sqlite3", <<Entry("db2", "d2")>>)>>
DocTwo == <<Section("mysql", <<Entry("db2", "d2")>>)>>
DocUnknownType == <<Section("sqlite", <<Entry("db1", "d1")>>), Section("Oracle", <<Entry("db2", "d2")>>)>>

Docs == {DocBoth, DocTwo, DocUnknownType}
FileMissing == "missing"
FileMalformed == "malformed"
FileStates == {[kind |-> FileMissing, doc |-> <<>>], [kind |-> FileMalformed, doc |-> <<>>]}
                \cup {[kind |-> "json", doc |-> d] : d \in Docs}

\* ------------------------------------------------------------------ normalizer
\* src/server.py:236-243: aliases to the standard type
canonical_type(t) ==
  IF t \in {"postgres", "pg"} THEN "postgresql"
  ELSE IF t = "mariadb" THEN "mysql"
  ELSE IF t \in {"mssql", "sql server"} THEN "sqlserver"
  ELSE IF t = "sqlite3" THEN "sqlite"
  ELSE t

\* a normalizer in which the entry seen first for a name is kept
RECURSIVE normalize_section_keep_first(_, _, _)
normalize_section_keep_first(normalized, conns, db_type_normalized) ==
  IF conns = <<>> THEN normalized
  ELSE LET e == Head(conns)
           next == IF e.isDict /\ ~Has(normalized, e.name)
                     THEN Put(normalized, [name |-> e.name, type |-> db_type_normalized,
                                           database |-> e.database])
                     ELSE normalized
       IN normalize_section_keep_first(next, Tail(conns), db_type_normalized)

\* src/server.py:246-251: the entries of one section, added to normalized
RECURSIVE normalize_section(_, _, _)
normalize_section(normalized, conns, db_type_normalized) ==
  IF conns = <<>> THEN normalized
  ELSE LET e == Head(conns)
           next == IF e.isDict
                     THEN Put(normalized, [name |-> e.name, type |-> db_type_normalized,
                                           database |-> e.database])
                     ELSE normalized
       IN normalize_section(next, Tail(conns), db_type_normalized)

\* a normalizer that passes over a section of unknown type
RECURSIVE normalize_from_skipping_unknown(_, _)
normalize_from_skipping_unknown(normalized, raw) ==
  IF raw = <<>> THEN [ok |-> TRUE, cfg |-> normalized, err |-> NoMsg]
  ELSE LET sec == Head(raw)
           t == lower(sec.key)
       IN IF t \notin SeqRange(known_types)
            THEN normalize_from_skipping_unknown(normalized, Tail(raw))
          ELSE IF ~sec.isDict
            THEN [ok |-> FALSE, cfg |-> <<>>,
                  err |-> Msg("ValueError", "invalid_section", sec.key, <<>>)]
          ELSE normalize_from_skipping_unknown(
                 normalize_section(normalized, sec.conns, canonical_type(t)), Tail(raw))

\* src/server.py:217-258: the loop over raw_config.items()
RECURSIVE normalize_from(_, _)
normalize_from(normalized, raw) ==
  IF raw = <<>> THEN [ok |-> TRUE, cfg |-> normalized, err |-> NoMsg]
  ELSE LET sec == Head(raw)
           t == lower(sec.key)
       IN IF t \notin SeqRange(known_types)
            THEN [ok |-> FALSE, cfg |-> <<>>,
                  err |-> Msg("ValueError", "unknown_type", sec.key, known_types)]
          ELSE IF ~sec.isDict
            THEN [ok |-> FALSE, cfg |-> <<>>,
                  err |-> Msg("ValueError", "invalid_section", sec.key, <<>>)]
          ELSE normalize_from(normalize_section(normalized, sec.conns, canonical_type(t)),
                              Tail(raw))

normalize_config(raw) == normalize_from(<<>>, raw)

\* src/server.py:262-273: open + json.load + _normalize_config
read_config(f) ==
  IF f.kind = FileMissing
    THEN [ok |-> FALSE, cfg |-> <<>>, err |-> Msg("ValueError", "config_not_found", "", <<>>)]
  ELSE IF f.kind = FileMalformed
    THEN [ok |-> FALSE, cfg |-> <<>>, err |-> Msg("ValueError", "config_unreadable", "", <<>>)]
  ELSE normalize_config(f.doc)

\* ------------------------------------------------------------------ registry
\* a registry that compares the token as it is given
get_adapter_case_sensitive(db_type) ==
  IF db_type \in {"postgres", "postgresql", "pg"} THEN "PostgreSQLAdapter"
  ELSE IF db_type \in {"mysql", "mariadb"} THEN "MySQLAdapter"
  ELSE IF db_type \in {"sqlserver", "mssql", "sql server"} THEN "SQLServerAdapter"
  ELSE IF db_type \in {"sqlite", "sqlite3"} THEN "SQLiteAdapter"
  ELSE "Unsupported"

\* src/db_adapters.py:431-444
get_adapter(db_type) ==
  LET t == lower(db_type)
  IN IF t \in {"postgres", "postgresql", "pg"} THEN "PostgreSQLAdapter"
     ELSE IF t \in {"mysql", "mariadb"} THEN "MySQLAdapter"
     ELSE IF t \in {"sqlserver", "mssql", "sql server"} THEN "SQLServerAdapter"
     ELSE IF t \in {"sqlite", "sqlite3"} THEN "SQLiteAdapter"
     ELSE "Unsupported"

\* a default schema that treats SQL Server and MySQL like PostgreSQL
get_default_schema_public(db_type) ==
  LET t == lower(db_type)
  IN IF t \in {"sqlite", "sqlite3"} THEN "main" ELSE "public"

\* src/server.py:175-186
get_default_schema(db_type) ==
  LET t == lower(db_type)
  IN IF t \in {"postgres", "postgresql", "pg"} THEN "public"
     ELSE IF t \in {"sqlserver", "mssql", "sql server"} THEN "dbo"
     ELSE IF t \in {"mysql", "mariadb"} THEN NoSchema
     ELSE IF t \in {"sqlite", "sqlite3"} THEN "main"
     ELSE "public"

\* ------------------------------------------------------------------ backends
\* What each backend's rows look like to the driver: native values, one of
\* which (a decimal) json cannot serialize without default=str.
BackendRows(n) ==
  IF n = "db1" THEN <<[v |-> "int:1"]>> ELSE <<[v |-> "decimal:2.5"], [v |-> "null"]>>

\* json.dumps(..., default=str) followed by json.loads: a non-JSON value
\* comes back as the string str() gives for it.
json_value(v) == IF v = "decimal:2.5" THEN "str:2.5" ELSE v
json_rows(rows) == [i \in 1..Len(rows) |-> [v |-> json_value(rows[i].v)]]

\* ------------------------------------------------------------------ state
VARIABLES
  file,         \* the configuration file at DB_CONFIG_PATH
  config,       \* self.config: dict name -> config with type
  connections,  \* self.connections: dict name -> pool handle
  adapters,     \* self.adapters: dict name -> adapter
  pools,        \* every pool handle a connect has returned, by handle number
  tasks,        \* the coroutines: tool invocations, gather children, cleanup calls
  last,         \* the invocation that ended in the step that led here, if any
  failed,       \* names for which some connect has failed (history)
  fileChanges,  \* number of changes of the configuration file so far
  rrpool,       \* a pool object of a round-robin adapter: {"pool": [...], "current": n}
  callers,      \* the coroutines inside adapter methods
  wire,         \* per caller: the statements its MySQL cursor has sent in its call
  acquired,     \* the connections _get_connection has returned, in order (history)
  odbc          \* SQLServerAdapter.connect: pyodbc.drivers() and the connect in progress

\* the state of the adapters below the connection manager
dvars == <<rrpool, callers, wire, acquired, odbc>>

vars == <<file, config, connections, adapters, pools, tasks, last, failed,
          fileChanges, dvars>>

\* no connect of a round-robin adapter has returned yet
NoPool == [adapter |-> "", size |-> 0, current |-> 0]
Callers == 1..MaxCallers
IdleCaller == [pc |-> "idle", method |-> "", schema |-> NoSchema, conn |-> 0 - 1, at |-> 0, todo |-> <<>>]
\* the adapters before any of their methods has been called
\* no SQLServerAdapter.connect has been called
NoDriver == "<None>"
NoOdbc == [installed |-> <<>>, pc |-> "idle", driver |-> NoDriver, opened |-> 0]

DriverInit ==
  /\ odbc = NoOdbc
  /\ rrpool = NoPool
  /\ callers = [c \in Callers |-> IdleCaller]
  /\ wire = [c \in Callers |-> <<>>]
  /\ acquired = <<>>

NoEntry == [name |-> NoName, type |-> "", database |-> ""]
NoBody == [shape |-> "none"]
NoOut == [kind |-> "none", msg |-> NoMsg, body |-> NoBody]
NoResp == [kind |-> "none", err |-> FALSE, msg |-> NoMsg, body |-> NoBody]
NoIter == [size |-> 0, pos |-> 0]

\* A coroutine's locals.  "tried" is history: the names for which the
\* preconnect loop of this invocation has awaited a connect.
IdleTask ==
  [op |-> "none", via |-> "none", parent |-> 0,
   db |-> NoName, schema |-> NoSchema, names |-> <<>>,
   pc |-> "idle", iter |-> <<>>, cur |-> NoEntry, pool |-> 0, adp |-> "",
   it |-> NoIter, out |-> NoOut, tried |-> {},
   given |-> NoSchema]     \* the schema argument as the caller gave it (history)

\* what is known of an invocation that has ended: the call, how its handler
\* ended (out) and, for a tool invocation, what call_tool returned (resp)
NoLast == [op |-> "none", via |-> "none", db |-> NoName, schema |-> NoSchema,
           names |-> <<>>, out |-> NoOut, resp |-> NoResp]

\* a slot whose invocation has ended and has been reported
RetiredTask == [IdleTask EXCEPT !.pc = "retired"]

EnsureOps == {"query_database"}

\* ------------------------------------------------------------------ dispatch boundary
\* a dispatch boundary that catches ValueError only
caught_value_error_only(exc) == exc = "ValueError"

\* src/server.py:169: "except Exception" catches every exception class the
\* handlers raise.
caught_by_call_tool(exc) == exc \in {"ValueError", "KeyError", "RuntimeError", "DriverError"}

\* src/server.py:141-173: the try/except of call_tool around a handler's outcome
call_tool(out) ==
  IF out.kind = "raise"
    THEN IF caught_by_call_tool(out.msg.exc)
           THEN [kind |-> "text", err |-> TRUE, msg |-> out.msg, body |-> NoBody]
           ELSE [kind |-> "propagated", err |-> TRUE, msg |-> out.msg, body |-> NoBody]
    ELSE [kind |-> "text", err |-> FALSE, msg |-> NoMsg, body |-> out.body]

\* a coroutine ends: by return or by raise
Settle(task, out) ==
  [task EXCEPT !.pc = "done", !.out = out, !.cur = NoEntry, !.iter = <<>>, !.pool = 0,
               !.adp = "", !.it = NoIter, !.tried = {}, !.given = NoSchema]
Return(task, body) == Settle(task, [kind |-> "return", msg |-> NoMsg, body |-> body])
Raise(task, msg) == Settle(task, [kind |-> "raise", msg |-> msg, body |-> NoBody])

\* ------------------------------------------------------------------ connection manager
\* src/server.py:277 and :199: "if db_name not in self.connections"
needs_connect(conns, db_name) == ~Has(conns, db_name)

\* a loop that remembers failed names and does not try them again
RECURSIVE scan_skipping_failed(_, _)
scan_skipping_failed(items, conns) ==
  IF items = <<>> THEN [found |-> FALSE, entry |-> NoEntry, rest |-> <<>>]
  ELSE IF needs_connect(conns, Head(items).name) /\ Head(items).name \notin failed
    THEN [found |-> TRUE, entry |-> Head(items), rest |-> Tail(items)]
  ELSE scan_skipping_failed(Tail(items), conns)

\* src/server.py:276-277: advance the for loop over the remaining items of
\* the normalized dict until a name that needs a connect
RECURSIVE scan(_, _)
scan(items, conns) ==
  IF items = <<>> THEN [found |-> FALSE, entry |-> NoEntry, rest |-> <<>>]
  ELSE IF needs_connect(conns, Head(items).name)
    THEN [found |-> TRUE, entry |-> Head(items), rest |-> Tail(items)]
  ELSE scan(Tail(items), conns)

\* a loop that a failed preconnect ends
after_preconnect_failure_break(rest) == <<>>

\* src/server.py:284-285: a failed preconnect is printed and the loop goes on
after_preconnect_failure(rest) == rest

\* a list_databases that takes the status from self.config
list_databases_status_from_config(cfg, conns) ==
  [shape |-> "databases",
   databases |-> [i \in 1..Len(cfg) |->
                    [name |-> cfg[i].name, type |-> cfg[i].type,
                     status |-> IF Has(cfg, cfg[i].name) THEN "connected" ELSE "disconnected",
                     database |-> cfg[i].database]],
   count |-> Len(cfg),
   connected |-> Len(conns)]

\* src/server.py:292-308: the body of the list_databases response
list_databases_body(cfg, conns) ==
  [shape |-> "databases",
   databases |-> [i \in 1..Len(cfg) |->
                    [name |-> cfg[i].name, type |-> cfg[i].type,
                     status |-> IF Has(conns, cfg[i].name) THEN "connected" ELSE "disconnected",
                     database |-> cfg[i].database]],
   count |-> Len(cfg),
   connected |-> Len(conns)]

\* src/server.py:321-323, 336-344: with the pool and adapter in hand, resolve
\* the schema and call the adapter (a suspension point)
call_adapter(task, cfg, pool, adp) ==
  IF task.op \in {"list_tables", "describe_table"} /\ task.schema = NoSchema
    THEN IF ~Has(cfg, task.db)
           THEN Raise(task, Msg("KeyError", "key", task.db, <<>>))
           ELSE [task EXCEPT !.pc = "exec", !.pool = pool, !.adp = adp, !.cur = NoEntry,
                             !.schema = get_default_schema(Get(cfg, task.db).type)]
    ELSE [task EXCEPT !.pc = "exec", !.pool = pool, !.adp = adp, !.cur = NoEntry]

\* an ensure that connects whether or not a handle is cached
ensure_connection_always_connecting(task, cfg, conns, adps) ==
  IF ~Has(cfg, task.db)
    THEN Raise(task, Msg("ValueError", "not_found", task.db, Keys(cfg)))
  ELSE [task EXCEPT !.pc = "ens_connect", !.cur = Get(cfg, task.db)]

\* an ensure that looks for a cached handle before it looks at the configuration
ensure_connection_cache_first(task, cfg, conns, adps) ==
  IF ~needs_connect(conns, task.db)
    THEN call_adapter(task, cfg, Get(conns, task.db).pool, Get(adps, task.db).adapter)
  ELSE IF ~Has(cfg, task.db)
    THEN Raise(task, Msg("ValueError", "not_found", task.db, Keys(cfg)))
  ELSE [task EXCEPT !.pc = "ens_connect", !.cur = Get(cfg, task.db)]

\* src/server.py:192-215: _ensure_connection after the load has returned
ensure_connection(task, cfg, conns, adps) ==
  IF ~Has(cfg, task.db)
    THEN Raise(task, Msg("ValueError", "not_found", task.db, Keys(cfg)))
  ELSE IF needs_connect(conns, task.db)
    THEN [task EXCEPT !.pc = "ens_connect", !.cur = Get(cfg, task.db)]
  ELSE call_adapter(task, cfg, Get(conns, task.db).pool, Get(adps, task.db).adapter)

\* what follows "await self._load_database_connections()" in the handler
after_load(task, cfg, conns, adps) ==
  LET t1 == [task EXCEPT !.cur = NoEntry, !.iter = <<>>]
  IN IF task.op = "list_databases"
       THEN Return(t1, list_databases_body(cfg, conns))
       ELSE ensure_connection(t1, cfg, conns, adps)

\* src/server.py:276-285: the preconnect loop from the given remaining items on
preconnect(task, items, cfg, conns, adps) ==
  LET s == scan(items, conns)
  IN IF s.found
       THEN [task EXCEPT !.pc = "load_connect", !.cur = s.entry, !.iter = s.rest,
                         !.tried = @ \cup {s.entry.name}]
       ELSE after_load(task, cfg, conns, adps)

\* a load that empties self.config before it reads the file
load_database_connections_resetting(task) ==
  LET r == read_config(file)
  IN IF ~r.ok
       THEN [task |-> Raise(task, r.err), cfg |-> <<>>]
       ELSE [task |-> preconnect(task, r.cfg, r.cfg, connections, adapters),
             cfg |-> r.cfg]

\* src/server.py:260-285: _load_database_connections from its first line to
\* its first suspension point (or to the end of the handler's synchronous run)
load_database_connections(task) ==
  LET r == read_config(file)
  IN IF ~r.ok
       THEN [task |-> Raise(task, r.err), cfg |-> config]
       ELSE [task |-> preconnect(task, r.cfg, r.cfg, connections, adapters),
             cfg |-> r.cfg]

\* a pool handle as adapter.connect returns it
NewPool(entry) ==
  [state |-> "open", name |-> entry.name, type |-> entry.type,
   adapter |-> get_adapter(lower(entry.type)), closeCalls |-> 0]

\* src/server.py:207-208, 282-283: cache the pool and the adapter
cache_pool(conns, db_name, pool) == Put(conns, [name |-> db_name, pool |-> pool])
\* a connect that stores the pool and not the adapter
cache_adapter_skipping(adps, db_name, adapter) == adps
cache_adapter(adps, db_name, adapter) == Put(adps, [name |-> db_name, adapter |-> adapter])

\* src/server.py:432-437: the for loop of cleanup over self.connections.items()
\* from iterator position task.it.pos on; a dict iterator raises RuntimeError
\* when the dict's size differs from the size at the start of the iteration
RECURSIVE cleanup_from(_, _, _)
cleanup_from(task, conns, adps) ==
  IF Len(conns) # task.it.size
    THEN [task |-> Raise(task, Msg("RuntimeError", "dict_changed_size", "", <<>>)),
          clear |-> FALSE]
  ELSE IF task.it.pos > Len(conns)
    THEN [task |-> Return(task, NoBody), clear |-> TRUE]
  ELSE LET e == conns[task.it.pos]
           t1 == [task EXCEPT !.it.pos = @ + 1]
       IN IF Has(adps, e.name)
            THEN [task |-> [t1 EXCEPT !.pc = "closing", !.pool = e.pool,
                                      !.adp = Get(adps, e.name).adapter],
                  clear |-> FALSE]
            ELSE cleanup_from(t1, conns, adps)

\* a fan-out that gives up at the first failed query
RECURSIVE combine_until_error(_, _, _, _)
combine_until_error(combined, database_names, results, i) ==
  IF i > Len(database_names) THEN combined
  ELSE IF results[i].kind = "raise"
    THEN Put(combined, [name |-> database_names[i], error |-> TRUE,
                        msg |-> results[i].msg, rows |-> <<>>])
  ELSE combine_until_error(Put(combined, [name |-> database_names[i], error |-> FALSE,
                                            msg |-> NoMsg, rows |-> results[i].body.rows]),
                           database_names, results, i + 1)

\* src/server.py:416-423: combined_result, filled in the order of database_names
RECURSIVE combine(_, _, _, _)
combine(combined, database_names, results, i) ==
  IF i > Len(database_names) THEN combined
  ELSE LET item == IF results[i].kind = "raise"
                     THEN [name |-> database_names[i], error |-> TRUE,
                           msg |-> results[i].msg, rows |-> <<>>]
                     ELSE [name |-> database_names[i], error |-> FALSE,
                           msg |-> NoMsg, rows |-> results[i].body.rows]
       IN combine(Put(combined, item), database_names, results, i + 1)

\* ------------------------------------------------------------------ actions
LowestIdle(t) == tasks[t].pc = "idle" /\ \A u \in 1..(t - 1) : tasks[u].pc # "idle"

\* the gather children of invocation t
Kids(t) == {u \in Tasks : tasks[u].via = "gather" /\ tasks[u].parent = t}

\* Task t's run ends with its locals as in r.  An invocation that has ended
\* leaves the model through "last", which holds it for one step; a gather
\* child that has ended stays until its parent has its result.
Commit(t, r) ==
  IF r.pc = "done" /\ r.via # "gather"
    THEN /\ last' = [op |-> r.op, via |-> r.via, db |-> r.db, schema |-> r.schema,
                      names |-> r.names, out |-> r.out,
                      resp |-> IF r.via = "tool" THEN call_tool(r.out) ELSE NoResp]
         /\ tasks' = [u \in Tasks |-> IF u = t \/ u \in Kids(t) THEN RetiredTask ELSE tasks[u]]
    ELSE /\ last' = NoLast
         /\ tasks' = [tasks EXCEPT ![t] = r]

\* a handler that starts with _load_database_connections
StartHandler(t, task) ==
  LET r == load_database_connections(task)
  IN /\ Commit(t, r.task)
     /\ config' = r.cfg
     /\ UNCHANGED <<file, connections, adapters, pools, failed, fileChanges, dvars>>

\* call_tool("list_databases", {})
CallListDatabases(t) ==
  /\ LowestIdle(t)
  /\ StartHandler(t, [IdleTask EXCEPT !.op = "list_databases", !.via = "tool"])

\* call_tool of query_database or list_tables
CallNamed(t) ==
  /\ LowestIdle(t)
  /\ \E op \in EnsureOps, db \in Names, schema \in {NoSchema, "s1"} :
       /\ op # "list_tables" => schema = NoSchema
       /\ StartHandler(t, [IdleTask EXCEPT !.op = op, !.via = "tool", !.db = db,
                                           !.schema = schema])

\* call_tool with a tool name it does not know, or without a required argument
CallBadRequest(t) ==
  /\ LowestIdle(t)
  /\ \E m \in {Msg("ValueError", "unknown_tool", "drop_database", <<>>),
               Msg("KeyError", "key", "database_name", <<>>)} :
       Commit(t, Raise([IdleTask EXCEPT !.op = "bad_request", !.via = "tool"], m))
  /\ UNCHANGED <<file, config, connections, adapters, pools, failed, fileChanges, dvars>>

\* call_tool("query_multiple_databases", ...): one _query_database coroutine
\* per name, handed to asyncio.gather
CallQueryMultiple(t) ==
  /\ LowestIdle(t)
  /\ \E k \in 0..MaxFan : \E database_names \in [1..k -> Names] :
       /\ t + k <= MaxTasks
       /\ LET parent == [IdleTask EXCEPT !.op = "query_multiple_databases", !.via = "tool",
                                         !.names = database_names, !.pc = "gather"]
          IN IF k = 0
               THEN Commit(t, Return(parent, [shape |-> "map", map |-> <<>>]))
               ELSE /\ last' = NoLast
                    /\ tasks' = [u \in Tasks |->
                         IF u = t THEN parent
                         ELSE IF u \in (t + 1)..(t + k)
                           THEN [IdleTask EXCEPT !.op = "query_database", !.via = "gather",
                                                 !.parent = t,
                                                 !.db = database_names[u - t],
                                                 !.pc = "spawned"]
                         ELSE tasks[u]]
  /\ UNCHANGED <<file, config, connections, adapters, pools, failed, fileChanges, dvars>>

\* a gather child runs for the first time
ChildStart(t) ==
  /\ tasks[t].pc = "spawned"
  /\ StartHandler(t, tasks[t])

\* the connect awaited in the preconnect loop returns a pool (ok) or raises
LoadConnectDone(t) ==
  /\ tasks[t].pc = "load_connect"
  /\ \E ok \in BOOLEAN :
     LET task == tasks[t]
         e == task.cur
         p == Len(pools) + 1
         conns == IF ok THEN cache_pool(connections, e.name, p) ELSE connections
         adps == IF ok THEN cache_adapter(adapters, e.name, get_adapter(lower(e.type)))
                       ELSE adapters
         rest == IF ok THEN task.iter ELSE after_preconnect_failure(task.iter)
     IN /\ connections' = conns
        /\ adapters' = adps
        /\ pools' = IF ok THEN Append(pools, NewPool(e)) ELSE pools
        /\ failed' = IF ok THEN failed ELSE failed \cup {e.name}
        /\ Commit(t, preconnect(task, rest, config, conns, adps))
  /\ UNCHANGED <<file, config, fileChanges, dvars>>

\* the connect awaited in _ensure_connection returns a pool (ok) or raises
EnsureConnectDone(t) ==
  /\ tasks[t].pc = "ens_connect"
  /\ \E ok \in BOOLEAN :
     LET task == tasks[t]
         e == task.cur
         p == Len(pools) + 1
         adapter == get_adapter(lower(e.type))
     IN IF ok
          THEN /\ connections' = cache_pool(connections, e.name, p)
               /\ adapters' = cache_adapter(adapters, e.name, adapter)
               /\ pools' = Append(pools, NewPool(e))
               /\ failed' = failed
               /\ Commit(t, call_adapter(task, config, p, adapter))
          ELSE /\ UNCHANGED <<connections, adapters, pools>>
               /\ failed' = failed \cup {e.name}
               /\ Commit(t, Raise(task, Msg("ValueError", "connect_failed", e.name, <<>>)))
  /\ UNCHANGED <<file, config, fileChanges, dvars>>

\* the adapter call (execute_query, list_tables) returns or raises
ExecDone(t) ==
  /\ tasks[t].pc = "exec"
  /\ \E ok \in BOOLEAN :
       LET task == tasks[t]
           pool == pools[task.pool]
       IN /\ ok => pool.state = "open"
          /\ Commit(t,
               IF ~ok
                 THEN Raise(task, Msg("DriverError", "query_failed", task.db, <<>>))
               ELSE IF task.op = "query_database"
                 THEN Return(task, [shape |-> "rows",
                                    rows |-> json_rows(BackendRows(pool.name))])
               ELSE Return(task, [shape |-> task.op, database |-> task.db,
                                  schema |-> task.schema, via |-> pool.adapter]))
  /\ UNCHANGED <<file, config, connections, adapters, pools, failed, fileChanges, dvars>>

\* a gather that returns as soon as one of its coroutines has settled
GatherDone_first_settled(t) ==
  /\ tasks[t].pc = "gather"
  /\ \E i \in 1..Len(tasks[t].names) : tasks[t + i].pc = "done"
  /\ Commit(t, Return(tasks[t], [shape |-> "map", map |-> <<>>]))
  /\ UNCHANGED <<file, config, connections, adapters, pools, failed, fileChanges, dvars>>

\* asyncio.gather(..., return_exceptions=True) has every result
GatherDone(t) ==
  /\ tasks[t].pc = "gather"
  /\ LET n == Len(tasks[t].names)
         results == [i \in 1..n |-> tasks[t + i].out]
     IN /\ \A i \in 1..n : tasks[t + i].pc = "done"
        /\ Commit(t, Return(tasks[t],
                            [shape |-> "map",
                             map |-> combine(<<>>, tasks[t].names, results, 1)]))
  /\ UNCHANGED <<file, config, connections, adapters, pools, failed, fileChanges, dvars>>

\* one run of cleanup between suspension points
CleanupRun(t, task, ps) ==
  LET r == cleanup_from(task, connections, adapters)
  IN /\ Commit(t, r.task)
     /\ connections' = IF r.clear THEN <<>> ELSE connections
     /\ adapters' = IF r.clear THEN <<>> ELSE adapters
     /\ pools' = IF r.task.pc = "closing"
                   THEN [ps EXCEPT ![r.task.pool].closeCalls = @ + 1]
                   ELSE ps
     /\ UNCHANGED <<file, config, failed, fileChanges, dvars>>

\* cleanup() is called
CallCleanup(t) ==
  /\ LowestIdle(t)
  /\ CleanupRun(t, [IdleTask EXCEPT !.op = "cleanup", !.via = "direct",
                                    !.it = [size |-> Len(connections), pos |-> 1]],
                pools)

\* the adapter.close awaited in cleanup returns or raises
CloseDone(t) ==
  /\ tasks[t].pc = "closing"
  /\ \E ok \in BOOLEAN :
       LET task == tasks[t]
       IN IF ok
            THEN CleanupRun(t, task, [pools EXCEPT ![task.pool].state = "closed"])
            ELSE /\ Commit(t, Raise(task, Msg("DriverError", "close_failed", "", <<>>)))
                 /\ UNCHANGED <<file, config, connections, adapters, pools,
                                failed, fileChanges, dvars>>

\* ---- environment ---------------------------------------------------------
\* the configuration file is rewritten, removed or corrupted
FileChange ==
  /\ fileChanges < MaxFileChanges
  /\ fileChanges' = fileChanges + 1
  /\ \E f \in FileStates : f # file /\ file' = f
  /\ last' = NoLast
  /\ UNCHANGED <<config, connections, adapters, pools, tasks, failed, dvars>>

\* the server object after __init__ (src/server.py:23-28) and a readable
\* configuration file
Init ==
  /\ file = [kind |-> "json", doc |-> DocBoth]
  /\ config = <<>>
  /\ connections = <<>>
  /\ adapters = <<>>
  /\ pools = <<>>
  /\ tasks = [t \in Tasks |-> IdleTask]
  /\ last = NoLast
  /\ failed = {}
  /\ fileChanges = 0
  /\ DriverInit

Next ==
  \/ \E t \in Tasks : CallListDatabases(t)
  \/ \E t \in Tasks : CallNamed(t)
  \/ \E t \in Tasks : CallBadRequest(t)
  \/ \E t \in Tasks : CallQueryMultiple(t)
  \/ \E t \in Tasks : CallCleanup(t)
  \/ \E t \in Tasks : ChildStart(t)
  \/ \E t \in Tasks : LoadConnectDone(t)
  \/ \E t \in Tasks : EnsureConnectDone(t)
  \/ \E t \in Tasks : ExecDone(t)
  \/ \E t \in Tasks : GatherDone(t)
  \/ \E t \in Tasks : CloseDone(t)
  \/ FileChange

Spec == Init /\ [][Next]_vars

\* the event loop runs every coroutine that is ready (a spawned gather
\* child, a gather whose results are all in), and every backend connect and
\* query call returns or fails in the end
Fairness ==
  \A t \in Tasks :
    /\ WF_vars(ChildStart(t))
    /\ WF_vars(GatherDone(t))
    /\ WF_vars(LoadConnectDone(t))
    /\ WF_vars(EnsureConnectDone(t))
    /\ WF_vars(ExecDone(t))

\* the fan-out next to a cleanup and a change of the configuration file
FanNext ==
  \/ \E t \in Tasks : CallQueryMultiple(t)
  \/ \E t \in Tasks : CallCleanup(t)
  \/ \E t \in Tasks : ChildStart(t)
  \/ \E t \in Tasks : LoadConnectDone(t)
  \/ \E t \in Tasks : EnsureConnectDone(t)
  \/ \E t \in Tasks : ExecDone(t)
  \/ \E t \in Tasks : GatherDone(t)
  \/ \E t \in Tasks : CloseDone(t)
  \/ FileChange

FairSpec == Init /\ [][FanNext]_vars /\ Fairness

\* ------------------------------------------------------------------ table listing and description
\* a document with the two backend types that DocBoth does not have
DocServer == <<Section("MSSQL", <<Entry("db1", "d1")>>), Section("MariaDB", <<Entry("db2", "d2")>>)>>
TableOps == {"list_tables", "describe_table"}

\* call_tool of list_tables or describe_table, with or without a schema
InFlight == {u \in Tasks : tasks[u].pc \notin {"idle", "retired"}}
CallTables(t) ==
  /\ LowestIdle(t)
  /\ Cardinality(InFlight) < MaxInFlight
  /\ \E op \in TableOps, db \in Names, schema \in {NoSchema, "s1"} :
       StartHandler(t, [IdleTask EXCEPT !.op = op, !.via = "tool", !.db = db,
                                        !.schema = schema, !.given = schema])

SchemaInit ==
  /\ file = [kind |-> "json", doc |-> DocServer]
  /\ config = <<>>
  /\ connections = <<>>
  /\ adapters = <<>>
  /\ pools = <<>>
  /\ tasks = [t \in Tasks |-> IdleTask]
  /\ last = NoLast
  /\ failed = {}
  /\ fileChanges = 0
  /\ DriverInit

SchemaNext ==
  \/ \E t \in Tasks : CallTables(t)
  \/ \E t \in Tasks : LoadConnectDone(t)
  \/ \E t \in Tasks : EnsureConnectDone(t)
  \/ \E t \in Tasks : ExecDone(t)
  \/ FileChange

SchemaSpec == SchemaInit /\ [][SchemaNext]_vars

\* ------------------------------------------------------------------ adapters
\* src/db_adapters.py:376 and :297: "for _ in range(5)"
PoolSize == 5

\* src/db_adapters.py:369-381 (SQLite) and :295-300 (SQL Server): the pool
\* object that connect returns
rr_connect(adapter) == [adapter |-> adapter, size |-> PoolSize, current |-> 0]

\* _get_connection without the modulo
get_connection_no_wrap(pool_obj) ==
  [idx |-> pool_obj.current,
   pool |-> [pool_obj EXCEPT !.current = pool_obj.current + 1]]

\* _get_connection whose write of the cursor is lost
get_connection_lost_update(pool_obj) ==
  [idx |-> pool_obj.current, pool |-> pool_obj]

\* src/db_adapters.py:383-388 and :302-307: _get_connection, which has no
\* suspension point: the connection index it returns and the pool object
\* it leaves
get_connection(pool_obj) ==
  [idx |-> pool_obj.current,
   pool |-> [pool_obj EXCEPT !.current = (pool_obj.current + 1) % pool_obj.size]]

\* a statement handed to cur.execute: the catalog query, what its WHERE
\* clause compares table_schema with, and the parameters given with it
\* (NoParams: execute was called with the query alone)
NoParams == <<"<no args>">>
Statement(query, where, params) == [query |-> query, where |-> where, params |-> params]

\* src/db_adapters.py:141-165: the cur.execute calls of MySQLAdapter.list_tables
mysql_list_tables(schema) ==
  LET where == IF schema # NoSchema THEN "%s" ELSE "database()"
      params == IF schema # NoSchema THEN <<schema>> ELSE <<>>
  IN <<Statement("tables", where, params), Statement("tables", where, NoParams)>>

\* src/db_adapters.py:167-210: the cur.execute call of MySQLAdapter.describe_table
mysql_describe_table(table_name, schema) ==
  LET where == IF schema # NoSchema THEN "%s" ELSE "database()"
      params == IF schema # NoSchema THEN <<schema, table_name>> ELSE <<table_name>>
  IN <<Statement("columns", where, params)>>

\* the backend rejects a statement whose %s for the schema was left as it is
backend_accepts(stmt) == stmt.where = "%s" => stmt.params # NoParams

\* connect of a round-robin adapter returns its pool object
RRConnect ==
  /\ rrpool = NoPool
  /\ \E adapter \in {"SQLiteAdapter", "SQLServerAdapter"} : rrpool' = rr_connect(adapter)
  /\ UNCHANGED <<callers, wire, acquired>>
  /\ UNCHANGED <<file, config, connections, adapters, pools, tasks, last, failed, fileChanges>>
  /\ UNCHANGED odbc

\* execute_query of a round-robin adapter up to its suspension point: the
\* connection is taken and the query is awaited on it
RRExecuteStart(c) ==
  /\ rrpool # NoPool
  /\ callers[c].pc = "idle"
  /\ Len(acquired) < MaxAcquire
  /\ LET g == get_connection(rrpool)
     IN /\ rrpool' = g.pool
        /\ callers' = [callers EXCEPT ![c] = [IdleCaller EXCEPT !.pc = "running",
                                                !.method = "execute_query", !.conn = g.idx,
                                                !.at = Len(acquired) + 1]]
        /\ acquired' = Append(acquired, g.idx)
  /\ wire' = wire
  /\ UNCHANGED <<file, config, connections, adapters, pools, tasks, last, failed, fileChanges>>
  /\ UNCHANGED odbc

\* the awaited query of execute_query returns
RRExecuteDone(c) ==
  /\ callers[c].pc = "running"
  /\ callers' = [callers EXCEPT ![c] = IdleCaller]
  /\ UNCHANGED <<rrpool, wire, acquired>>
  /\ UNCHANGED <<file, config, connections, adapters, pools, tasks, last, failed, fileChanges>>
  /\ UNCHANGED odbc

\* MySQLAdapter.list_tables or describe_table is called
MySQLCall(c) ==
  /\ callers[c].pc \in {"idle", "returned", "raised"}
  /\ \E method \in {"list_tables", "describe_table"}, schema \in {NoSchema, "s1"} :
       callers' = [callers EXCEPT ![c] =
                     [IdleCaller EXCEPT
                        !.pc = "executing", !.method = method, !.schema = schema,
                        !.todo = IF method = "list_tables"
                                   THEN mysql_list_tables(schema)
                                   ELSE mysql_describe_table("t1", schema)]]
  /\ wire' = [wire EXCEPT ![c] = <<>>]
  /\ UNCHANGED <<rrpool, acquired>>
  /\ UNCHANGED <<file, config, connections, adapters, pools, tasks, last, failed, fileChanges>>
  /\ UNCHANGED odbc

\* one "await cur.execute(...)": the statement goes to the backend
MySQLExecute(c) ==
  /\ callers[c].pc = "executing"
  /\ LET stmt == Head(callers[c].todo)
         rest == Tail(callers[c].todo)
     IN /\ wire' = [wire EXCEPT ![c] = Append(@, stmt)]
        /\ callers' = [callers EXCEPT ![c] =
                         [@ EXCEPT !.todo = IF backend_accepts(stmt) THEN rest ELSE <<>>,
                                   !.pc = IF ~backend_accepts(stmt) THEN "raised"
                                          ELSE IF rest = <<>> THEN "returned"
                                          ELSE "executing"]]
  /\ UNCHANGED <<rrpool, acquired>>
  /\ UNCHANGED <<file, config, connections, adapters, pools, tasks, last, failed, fileChanges>>
  /\ UNCHANGED odbc

DriverSpecInit ==
  /\ file = [kind |-> "json", doc |-> DocBoth]
  /\ config = <<>>
  /\ connections = <<>>
  /\ adapters = <<>>
  /\ pools = <<>>
  /\ tasks = [t \in Tasks |-> IdleTask]
  /\ last = NoLast
  /\ failed = {}
  /\ fileChanges = 0
  /\ DriverInit

DriverNext ==
  \/ RRConnect
  \/ \E c \in Callers : RRExecuteStart(c)
  \/ \E c \in Callers : RRExecuteDone(c)
  \/ \E c \in Callers : MySQLCall(c)
  \/ \E c \in Callers : MySQLExecute(c)

DriverSpec == DriverSpecInit /\ [][DriverNext]_vars

\* ------------------------------------------------------------------ SQL Server connect
MaxInstalled == 3

\* src/db_adapters.py:236-241
preferred ==
  <<"ODBC Driver 18 for SQL Server", "ODBC Driver 17 for SQL Server",
    "ODBC Driver 13 for SQL Server", "SQL Server Native Client 11.0">>

\* what pyodbc.drivers() can name: the preferred drivers and two others
DriverNames == SeqRange(preferred) \cup {"SQL Server", "FreeTDS"}
InstalledLists ==
  {l \in UNION {[1..k -> DriverNames] : k \in 0..MaxInstalled} :
     \A i, j \in 1..Len(l) : l[i] = l[j] => i = j}

\* a choice that takes the first installed driver whatever it is
driver_to_use_first_installed(installed_drivers) ==
  IF installed_drivers # <<>> THEN installed_drivers[1] ELSE NoDriver

\* src/db_adapters.py:243-256: the first preferred driver that is installed,
\* else the first installed driver, else none
driver_to_use(installed_drivers) ==
  LET hits == {i \in 1..Len(preferred) : preferred[i] \in SeqRange(installed_drivers)}
  IN IF hits # {}
       THEN preferred[CHOOSE i \in hits : \A j \in hits : i <= j]
     ELSE IF installed_drivers # <<>> THEN installed_drivers[1]
     ELSE NoDriver

\* src/db_adapters.py:229-256, 286-296: connect up to its first suspension
\* point: it raises for want of a driver, or goes on to open its connections
OdbcConnect ==
  /\ odbc.pc = "idle"
  /\ LET d == driver_to_use(odbc.installed)
     IN odbc' = IF d = NoDriver
                  THEN [odbc EXCEPT !.pc = "raised"]
                  ELSE [odbc EXCEPT !.pc = "opening", !.driver = d]
  /\ UNCHANGED <<rrpool, callers, wire, acquired>>
  /\ UNCHANGED <<file, config, connections, adapters, pools, tasks, last, failed, fileChanges>>

\* src/db_adapters.py:297-300: one pyodbc.connect in the executor returns a
\* connection or raises; after the last one connect returns the pool object
OdbcOpen ==
  /\ odbc.pc = "opening"
  /\ \E ok \in BOOLEAN :
       /\ odbc' = IF ~ok THEN [odbc EXCEPT !.pc = "raised"]
                  ELSE [odbc EXCEPT !.opened = @ + 1,
                                    !.pc = IF odbc.opened + 1 = PoolSize
                                             THEN "connected" ELSE "opening"]
       /\ rrpool' = IF ok /\ odbc.opened + 1 = PoolSize
                      THEN rr_connect("SQLServerAdapter") ELSE rrpool
  /\ UNCHANGED <<callers, wire, acquired>>
  /\ UNCHANGED <<file, config, connections, adapters, pools, tasks, last, failed, fileChanges>>

OdbcInit ==
  /\ file = [kind |-> "json", doc |-> DocServer]
  /\ config = <<>>
  /\ connections = <<>>
  /\ adapters = <<>>
  /\ pools = <<>>
  /\ tasks = [t \in Tasks |-> IdleTask]
  /\ last = NoLast
  /\ failed = {}
  /\ fileChanges = 0
  /\ rrpool = NoPool
  /\ callers = [c \in Callers |-> IdleCaller]
  /\ wire = [c \in Callers |-> <<>>]
  /\ acquired = <<>>
  /\ odbc \in {[NoOdbc EXCEPT !.installed = l] : l \in InstalledLists}

OdbcNext == OdbcConnect \/ OdbcOpen

OdbcSpec == OdbcInit /\ [][OdbcNext]_vars

\* ------------------------------------------------------------------ normalizer and registry alone
\* top-level keys and backend-type tokens, in several letter cases
TypeKeys == {"PG", "MariaDB", "SQL Server", "SQLite3", "Oracle"}
TypeTokens ==
  SeqRange(known_types) \cup TypeKeys \cup {"PostgreSQL", "Sqlite", "MSSQL", "oracle", "redis", ""}

\* sequences without repetition of a key: the items of a JSON object
DistinctBy(keys) == \A i, j \in 1..Len(keys) : keys[i] = keys[j] => i = j
SeqsUpTo(S, n) == UNION {[1..k -> S] : k \in 0..n}
EntryName(e) == e.name
SectionKey(sec) == sec.key

GeneratedEntries ==
  {Entry("db1", "d1"), Entry("db1", "d2"), BadEntry("db1"), Entry("db2", "d2")}
SectionBodies == {b \in SeqsUpTo(GeneratedEntries, MaxEntries) : DistinctBy([i \in 1..Len(b) |-> EntryName(b[i])])}
GeneratedSections ==
  {Section(k, b) : k \in TypeKeys, b \in SectionBodies} \cup {BadSection(k) : k \in TypeKeys}
GeneratedDocs ==
  {d \in SeqsUpTo(GeneratedSections, MaxSections) : Len(d) >= 1 /\ DistinctBy([i \in 1..Len(d) |-> SectionKey(d[i])])}

\* src/server.py:249-251: the type is written to the copy, so db_config is
\* afterwards what it was
db_config_after(db_config, db_type_normalized) == db_config

\* the document after _normalize_config has run on it (to its return or raise)
RECURSIVE document_after(_)
document_after(raw) ==
  IF raw = <<>> THEN <<>>
  ELSE LET sec == Head(raw)
           t == lower(sec.key)
       IN IF t \notin SeqRange(known_types) \/ ~sec.isDict THEN raw
          ELSE <<[sec EXCEPT !.conns =
                    [i \in 1..Len(sec.conns) |->
                       IF sec.conns[i].isDict
                         THEN db_config_after(sec.conns[i], canonical_type(t))
                         ELSE sec.conns[i]]]>>
               \o document_after(Tail(raw))

\* src/server.py:262-273: the configuration is read and normalized
NormalizeConfig ==
  /\ last = NoLast
  /\ LET r == read_config(file)
     IN /\ config' = IF r.ok THEN r.cfg ELSE config
        /\ last' = [NoLast EXCEPT
                      !.op = "normalize_config",
                      !.out = IF r.ok
                                THEN [kind |-> "return", msg |-> NoMsg,
                                      body |-> [shape |-> "config", cfg |-> r.cfg]]
                                ELSE [kind |-> "raise", msg |-> r.err, body |-> NoBody]]
  /\ file' = [file EXCEPT !.doc = document_after(file.doc)]
  /\ UNCHANGED <<connections, adapters, pools, tasks, failed, fileChanges, dvars>>

\* src/db_adapters.py:431-444: the registry is asked for a driver
GetAdapter ==
  /\ last = NoLast
  /\ \E token \in TypeTokens :
       LET a == get_adapter(token)
       IN last' = [NoLast EXCEPT
                     !.op = "get_adapter", !.db = token,
                     !.out = IF a = "Unsupported"
                               THEN [kind |-> "raise",
                                     msg |-> Msg("ValueError", "unsupported_type", token, <<>>),
                                     body |-> NoBody]
                               ELSE [kind |-> "return", msg |-> NoMsg,
                                     body |-> [shape |-> "adapter", class |-> a]]]
  /\ UNCHANGED <<file, config, connections, adapters, pools, tasks, failed, fileChanges,
                 dvars>>

NormInit ==
  /\ file \in {[kind |-> "json", doc |-> d] : d \in GeneratedDocs}
  /\ config = <<>>
  /\ connections = <<>>
  /\ adapters = <<>>
  /\ pools = <<>>
  /\ tasks = [t \in Tasks |-> IdleTask]
  /\ last = NoLast
  /\ failed = {}
  /\ fileChanges = 0
  /\ DriverInit

NormNext == NormalizeConfig \/ GetAdapter

NormSpec == NormInit /\ [][NormNext]_vars

\* ------------------------------------------------------------------ properties
\* steps, as seen from outside
Starts(t) == tasks[t].pc \in {"idle", "spawned"} /\ tasks'[t].pc \notin {"idle", "spawned"}
Ends(t) == tasks[t].pc \notin {"idle", "retired"} /\ tasks'[t].pc = "retired"
\* the operation of a task that has run in this step
OpAfter(t) == IF tasks'[t].pc = "retired" THEN last'.op ELSE tasks'[t].op
OutAfter(t) == IF tasks'[t].pc = "retired" THEN last'.out ELSE tasks'[t].out
LoadingOps == {"list_databases", "query_database", "list_tables"}
\* the connect that task t awaited has returned a pool, or has raised
ConnectOk(t) ==
  /\ tasks[t].pc \in {"load_connect", "ens_connect"}
  /\ tasks'[t] # tasks[t]
  /\ Len(pools') = Len(pools) + 1
ConnectFailed(t) ==
  /\ tasks[t].pc \in {"load_connect", "ens_connect"}
  /\ tasks'[t] # tasks[t]
  /\ Len(pools') = Len(pools)
OpenPools(n) == {p \in 1..Len(pools) : pools[p].name = n /\ pools[p].state = "open"}
LastIndex(names, n) == CHOOSE i \in 1..Len(names) :
                         names[i] = n /\ \A j \in (i + 1)..Len(names) : names[j] # n

\* C1: query_multiple_databases returns only when every per-name query has
\* settled; its response is never an error; the keys of the map are exactly
\* the requested names; the entry of a name is {error: message} with the
\* message of that name's failed query, or else the rows of that name's own
\* backend (for a name given several times, of its last occurrence).
C1_FanOutIsolatesFailures ==
  [][/\ last'.op = "query_multiple_databases" =>
          /\ last'.resp.kind = "text" /\ ~last'.resp.err
          /\ KeySet(last'.resp.body.map) = SeqRange(last'.names)
          /\ Len(last'.resp.body.map) = Cardinality(SeqRange(last'.names))
     /\ \A t \in Tasks :
          (tasks[t].pc = "gather" /\ Ends(t)) =>
            LET names == tasks[t].names
                map == last'.resp.body.map
            IN /\ last'.op = "query_multiple_databases" /\ last'.names = names
               /\ \A i \in 1..Len(names) :
                    /\ tasks[t + i].pc = "done"
                    /\ tasks[t + i].db = names[i]
                    /\ i = LastIndex(names, names[i]) =>
                         LET e == Get(map, names[i])
                             r == tasks[t + i].out
                         IN IF r.kind = "raise"
                              THEN e.error /\ e.msg = r.msg
                              ELSE ~e.error /\ e.rows = json_rows(BackendRows(names[i]))]_vars

\* C1 witness: a fan-out over two names has returned a map in which one name
\* has a not-found error and the other its rows.
C1_Witness ==
  /\ last.op = "query_multiple_databases"
  /\ Len(last.resp.body.map) = 2
  /\ \E i, j \in 1..2 :
       /\ last.resp.body.map[i].error
       /\ last.resp.body.map[i].msg.what = "not_found"
       /\ ~last.resp.body.map[j].error
       /\ last.resp.body.map[j].rows = json_rows(BackendRows(last.resp.body.map[j].name))

\* C2: every logical name has at most one pool handle that is opened and not
\* yet closed.
C2_AtMostOneLivePool == \A n \in Names : Cardinality(OpenPools(n)) <= 1

\* C3: within one operation, no second connect is attempted for a name whose
\* connect this operation has already attempted.
C3_OneConnectAttempt ==
  \A t \in Tasks : ~(tasks[t].pc = "ens_connect" /\ tasks[t].cur.name \in tasks[t].tried)

\* the preconnect loop of task t, with the given items still to visit before
\* this step, has gone as far as the next name without a live pool, passing
\* only names that have one
LoopAdvanced(t, items) ==
  IF tasks'[t].pc = "load_connect"
    THEN \E k \in 1..Len(items) :
           /\ tasks'[t].cur = items[k]
           /\ tasks'[t].iter = SubSeq(items, k + 1, Len(items))
           /\ \A j \in 1..(k - 1) : Has(connections', items[j].name)
    ELSE \A j \in 1..Len(items) : Has(connections', items[j].name)

\* C4: preconnection is fail-soft.  When a load starts and whenever one of
\* its connects returns or raises, the loop goes on to the next configured
\* name without a live pool and awaits a connect for it; it ends only when no
\* such name is left, and a connect failure in the loop never ends the
\* operation with a connect error.
C4_PreconnectFailSoft ==
  [][\A t \in Tasks :
       /\ (Starts(t) /\ OpAfter(t) \in LoadingOps /\ OutAfter(t).msg.exc # "ValueError")
            => LoopAdvanced(t, config')
       /\ (Starts(t) /\ OpAfter(t) \in LoadingOps /\ OutAfter(t).msg.exc = "ValueError")
            => OutAfter(t).msg.what # "connect_failed"
       /\ tasks[t].pc = "load_connect" /\ tasks'[t] # tasks[t]
            => /\ LoopAdvanced(t, tasks[t].iter)
               /\ OutAfter(t).msg.what # "connect_failed"]_vars

\* C4 witness: the connect for db1 has failed in a preconnect loop, and the
\* same loop is now awaiting the connect for db2.
C4_Witness ==
  \E t \in Tasks :
    /\ tasks[t].pc = "load_connect"
    /\ tasks[t].cur.name = "db2"
    /\ "db1" \in tasks[t].tried
    /\ "db1" \in failed
    /\ ~Has(connections, "db1")
    /\ \A u \in Tasks \ {t} : tasks[u].pc = "idle"

\* the names the preconnect loop of task t has passed in this step without
\* awaiting a connect for them, the given items being those still to visit
LoopPassed(t, items) ==
  IF tasks'[t].pc = "load_connect"
    THEN {items[j].name : j \in {k \in 1..Len(items) :
                                   \E m \in (k + 1)..Len(items) : items[m] = tasks'[t].cur}}
    ELSE {items[j].name : j \in 1..Len(items)}

ConfigErrors == {"config_not_found", "config_unreadable", "unknown_type", "invalid_section"}

\* task t, running _ensure_connection, has come back from the load in this step
LeavesLoad(t) ==
  /\ Starts(t) \/ tasks[t].pc = "load_connect"
  /\ tasks'[t] # tasks[t]
  /\ tasks'[t].pc # "load_connect"
  /\ OpAfter(t) \in EnsureOps
  /\ OutAfter(t).msg.what \notin ConfigErrors
DbAfter(t) == IF tasks'[t].pc = "retired" THEN last'.db ELSE tasks'[t].db

\* C5: a failed connect leaves no failure state.  The step in which a connect
\* raises changes neither the configuration nor the live-pool table nor the
\* driver table; a name whose connect has failed before is never passed over
\* by a preconnect loop unless it has a live pool, and an operation on such a
\* name that comes back from the load without a live pool for it awaits a
\* connect for it; a connect that returns a pool caches it, with its driver,
\* and the operation that awaited it in ensure goes on to its query with it.
C5_NoCachedFailure ==
  [][\A t \in Tasks :
       /\ ConnectFailed(t) =>
            /\ config' = config /\ connections' = connections /\ adapters' = adapters
            /\ tasks[t].cur.name \in failed'
       /\ (Starts(t) /\ OpAfter(t) \in LoadingOps /\ OutAfter(t).msg.what \notin ConfigErrors)
            => \A n \in LoopPassed(t, config') \cap failed' : Has(connections', n)
       /\ (tasks[t].pc = "load_connect" /\ tasks'[t] # tasks[t])
            => \A n \in LoopPassed(t, tasks[t].iter) \cap failed' : Has(connections', n)
       /\ (LeavesLoad(t) /\ DbAfter(t) \in failed' /\ Has(config', DbAfter(t))
             /\ ~Has(connections', DbAfter(t)))
            => tasks'[t].pc = "ens_connect" /\ tasks'[t].cur.name = DbAfter(t)
       /\ ConnectOk(t) =>
            LET n == tasks[t].cur.name
            IN /\ Has(connections', n) /\ Get(connections', n).pool = Len(pools')
               /\ Has(adapters', n)
               /\ pools'[Len(pools')].state = "open" /\ pools'[Len(pools')].name = n
               /\ tasks[t].pc = "ens_connect" =>
                    tasks'[t].pc = "exec" /\ tasks'[t].pool = Len(pools')]_vars

\* C5 witness: an operation has ended after the connect for db1 failed, db1
\* has no live pool, and a later operation is awaiting a connect for db1.
C5_Witness ==
  /\ tasks[1].pc = "retired"
  /\ tasks[2].pc = "load_connect" /\ tasks[2].cur.name = "db1" /\ tasks[2].tried = {"db1"}
  /\ tasks[3].pc = "idle"
  /\ "db1" \in failed
  /\ Has(config, "db1")
  /\ ~Has(connections, "db1") /\ ~Has(adapters, "db1")

C7_CleanupClosesAll ==
  [][(last'.op = "cleanup" /\ last'.out.kind = "return") =>
       /\ connections' = <<>>
       /\ adapters' = <<>>
       /\ \A i \in 1..Len(connections) :
            /\ pools'[connections[i].pool].state = "closed"
            /\ pools'[connections[i].pool].closeCalls >= 1]_vars

\* C8: a list_databases response lists the names of self.config, each once
\* and in order, its count is their number, and the status of a name is
\* "connected" exactly when the live-pool table has an entry for the name as
\* the response is made, whatever the state of that pool.
C8_ListDatabasesStatus ==
  (last.op = "list_databases" /\ ~last.resp.err) =>
    LET dbs == last.resp.body.databases
    IN /\ last.resp.body.shape = "databases"
       /\ [i \in 1..Len(dbs) |-> dbs[i].name] = Keys(config)
       /\ \A i, j \in 1..Len(dbs) : dbs[i].name = dbs[j].name => i = j
       /\ last.resp.body.count = Len(config)
       /\ \A i \in 1..Len(dbs) :
            /\ dbs[i].status \in {"connected", "disconnected"}
            /\ dbs[i].status = "connected" <=> Has(connections, dbs[i].name)

\* C8 witness: list_databases has reported a name as connected whose pool has
\* already been closed (by a cleanup that did not get to clear the table).
C8_Witness ==
  /\ last.op = "list_databases" /\ ~last.resp.err
  /\ \E i \in 1..Len(last.resp.body.databases) :
       LET d == last.resp.body.databases[i]
       IN /\ d.status = "connected"
          /\ pools[Get(connections, d.name).pool].state = "closed"

\* C9: every tool invocation that ends has returned a text response; when its
\* handler raised, the response is the error text with the message of the
\* exception, and otherwise it is the handler's result.
C9_UniformErrorEnvelope ==
  last.via = "tool" =>
    /\ last.resp.kind = "text"
    /\ last.out.kind \in {"raise", "return"}
    /\ last.out.kind = "raise" =>
         last.resp.err /\ last.resp.msg = last.out.msg /\ last.resp.body = NoBody
    /\ last.out.kind = "return" =>
         ~last.resp.err /\ last.resp.msg = NoMsg /\ last.resp.body = last.out.body

\* C9 witness: a tool invocation without a required argument has been
\* answered with the error text, after an earlier invocation had ended, and
\* a slot is left for a later one.
C9_Witness ==
  /\ last.via = "tool" /\ last.op = "bad_request"
  /\ last.out.msg.exc = "KeyError"
  /\ last.resp.kind = "text" /\ last.resp.err
  /\ tasks[1].pc = "retired" /\ tasks[2].pc = "retired" /\ tasks[3].pc = "idle"

\* the configuration file cannot be loaded: missing, not JSON, or with a
\* top-level key that is no backend type
BadFile(f) ==
  \/ f.kind # "json"
  \/ \E i \in 1..Len(f.doc) : lower(f.doc[i].key) \notin SeqRange(known_types)

\* C10: an operation that loads the configuration while the file is missing,
\* malformed or has an unknown backend-type key ends at once with the
\* configuration error; no connect is awaited, and self.config, the live-pool
\* table, the driver table and the pools are as before.
C10_LoadFailsHard ==
  [][\A t \in Tasks :
       (Starts(t) /\ OpAfter(t) \in LoadingOps /\ BadFile(file)) =>
         /\ tasks'[t].pc \in {"retired", "done"}
         /\ OutAfter(t).kind = "raise"
         /\ OutAfter(t).msg.exc = "ValueError"
         /\ OutAfter(t).msg.what =
              (IF file.kind = FileMissing THEN "config_not_found"
               ELSE IF file.kind = FileMalformed THEN "config_unreadable"
               ELSE "unknown_type")
         /\ tasks'[t].pc = "retired" => last'.resp.kind = "text" /\ last'.resp.err
         /\ config' = config /\ connections' = connections /\ adapters' = adapters
         /\ pools' = pools]_vars

\* C10 witness: list_databases has ended with the unknown-type error while
\* the configuration loaded before and a pool opened before are still there.
C10_Witness ==
  /\ last.op = "list_databases"
  /\ last.out.msg.what = "unknown_type" /\ last.out.msg.arg = "Oracle"
  /\ Len(config) = 2
  /\ Len(connections) = 2
  /\ Len(adapters) = 2

\* ---- the normalizer and the registry (NormSpec) ----------------------------
\* the backend-type aliases, lower case
KnownAliases == {"postgresql", "postgres", "pg", "mysql", "mariadb",
                 "sqlserver", "mssql", "sql server", "sqlite", "sqlite3"}
UnknownKeys(doc) == {i \in 1..Len(doc) : lower(doc[i].key) \notin KnownAliases}
Least(S) == CHOOSE i \in S : \A j \in S : i <= j

HasNonMapping(doc) ==
  \E i \in 1..Len(doc) :
    \/ ~doc[i].isDict
    \/ \E j \in 1..Len(doc[i].conns) : ~doc[i].conns[j].isDict

\* C12: when the value of a backend-type section or of a logical name is no
\* mapping, normalization raises and no map is produced: the entry is never
\* dropped from a map that is returned.
C12_NonMappingFailsWhole ==
  (last.op = "normalize_config" /\ HasNonMapping(file.doc)) =>
    /\ last.out.kind = "raise"
    /\ config = <<>>

\* the canonical backend type of a top-level key
ExpectedType(k) ==
  CASE lower(k) \in {"postgresql", "postgres", "pg"} -> "postgresql"
    [] lower(k) \in {"mysql", "mariadb"} -> "mysql"
    [] lower(k) \in {"sqlserver", "mssql", "sql server"} -> "sqlserver"
    [] lower(k) \in {"sqlite", "sqlite3"} -> "sqlite"
    [] OTHER -> "<unknown>"
AllNames(doc) == UNION {KeySet(doc[i].conns) : i \in 1..Len(doc)}
\* the last section of the document that has the name
LastSectionWith(doc, n) ==
  CHOOSE i \in 1..Len(doc) :
    /\ \E j \in 1..Len(doc[i].conns) : doc[i].conns[j].name = n
    /\ \A k \in (i + 1)..Len(doc) : \A j \in 1..Len(doc[k].conns) : doc[k].conns[j].name # n

\* C13: for a document whose keys are all known aliases and whose values
\* are all mappings, normalization returns a flat map with exactly the
\* logical names of all sections, each once; the entry of a name has the
\* connection params of the last section that has the name and the canonical
\* type of that section; the document is as it was.
C13_NormalizeFlattens ==
  [][(last'.op = "normalize_config" /\ UnknownKeys(file.doc) = {} /\ ~HasNonMapping(file.doc)) =>
       LET cfg == last'.out.body.cfg
       IN /\ last'.out.kind = "return"
          /\ config' = cfg
          /\ KeySet(cfg) = AllNames(file.doc)
          /\ Len(cfg) = Cardinality(AllNames(file.doc))
          /\ \A n \in AllNames(file.doc) :
               LET sec == file.doc[LastSectionWith(file.doc, n)]
               IN /\ Get(cfg, n).type = ExpectedType(sec.key)
                  /\ Get(cfg, n).type \in {"postgresql", "mysql", "sqlserver", "sqlite"}
                  /\ Get(cfg, n).database = Get(sec.conns, n).database
          /\ file' = file]_vars

\* C13 witness: db1 stands in two sections with different params; the map
\* has it once, with the params and the type of the second.
C13_Witness ==
  /\ last.op = "normalize_config"
  /\ file.doc = <<Section("PG", <<Entry("db1", "d1"), Entry("db2", "d2")>>),
                  Section("SQLite3", <<Entry("db1", "d2")>>)>>
  /\ config = <<[name |-> "db1", type |-> "sqlite", database |-> "d2"],
                [name |-> "db2", type |-> "postgresql", database |-> "d2"]>>

\* the driver class of a canonical backend type
ExpectedAdapter(type) ==
  CASE type = "postgresql" -> "PostgreSQLAdapter"
    [] type = "mysql" -> "MySQLAdapter"
    [] type = "sqlserver" -> "SQLServerAdapter"
    [] type = "sqlite" -> "SQLiteAdapter"
    [] OTHER -> "<none>"

\* C14: get_adapter, given an alias of a backend in any letter case, returns
\* the driver class it returns for the canonical name of that backend, which
\* is also the class for the type the normalizer assigns to the alias; every
\* alias the normalizer accepts is accepted; any other token raises the
\* unsupported-type error.
C14_RegistryAliases ==
  last.op = "get_adapter" =>
    LET token == last.db
    IN /\ token \in SeqRange(known_types) => lower(token) \in KnownAliases
       /\ IF lower(token) \in KnownAliases
            THEN /\ last.out.kind = "return"
                 /\ last.out.body.class = ExpectedAdapter(ExpectedType(token))
                 /\ last.out.body.class = get_adapter(ExpectedType(token))
                 /\ last.out.body.class = get_adapter(canonical_type(lower(token)))
            ELSE /\ last.out.kind = "raise"
                 /\ last.out.msg.exc = "ValueError"
                 /\ last.out.msg.what = "unsupported_type"
                 /\ last.out.msg.arg = token

\* C14 witness: the registry has been asked for "SQL Server" and has
\* returned the SQL Server driver.
C14_Witness ==
  /\ last.op = "get_adapter"
  /\ last.db = "SQL Server"
  /\ last.out.kind = "return"
  /\ last.out.body.class = "SQLServerAdapter"

\* ---- table listing and description (SchemaSpec) ---------------------------
\* the default schema of a canonical backend type; none for mysql
ExpectedDefault(type) ==
  CASE type = "postgresql" -> "public"
    [] type = "sqlserver" -> "dbo"
    [] type = "sqlite" -> "main"
    [] type = "mysql" -> NoSchema
    [] OTHER -> "<unknown>"

\* C15: when list_tables or describe_table goes on to its adapter call, the
\* schema it passes is the schema the caller gave or, when the caller gave
\* none, the default of the type the name has in self.config: public for
\* postgresql, dbo for sqlserver, main for sqlite, none for mysql; the
\* response reports the schema that was passed.
C15_DefaultSchema ==
  [][\A t \in Tasks :
       /\ (tasks'[t].pc = "exec" /\ tasks[t].pc # "exec" /\ tasks'[t].op \in TableOps) =>
            tasks'[t].schema =
              (IF tasks'[t].given = NoSchema
                 THEN ExpectedDefault(Get(config', tasks'[t].db).type)
                 ELSE tasks'[t].given)
       /\ (tasks[t].pc = "exec" /\ tasks[t].op \in TableOps /\ Ends(t)
            /\ last'.out.kind = "return") =>
            /\ last'.op = tasks[t].op
            /\ last'.out.body.database = tasks[t].db
            /\ last'.out.body.schema = tasks[t].schema
            /\ ~last'.resp.err /\ last'.resp.body = last'.out.body]_vars

\* C15 witness: list_tables without a schema on the SQL Server name has
\* answered with schema dbo, and describe_table without a schema on the
\* MySQL name is at its adapter call with no schema.
C15_Witness ==
  /\ last.op = "list_tables" /\ last.db = "db1"
  /\ last.out.kind = "return"
  /\ last.out.body.schema = "dbo" /\ last.out.body.via = "SQLServerAdapter"
  /\ \E t \in Tasks :
       /\ tasks[t].pc = "exec" /\ tasks[t].op = "describe_table" /\ tasks[t].db = "db2"
       /\ tasks[t].given = NoSchema /\ tasks[t].schema = NoSchema
       /\ tasks[t].adp = "MySQLAdapter"

\* the parameters a catalog query of the given method carries for the
\* resolved schema: the schema itself when one was given, none for database()
ResolvedParams(method, schema) ==
  (IF schema # NoSchema THEN <<schema>> ELSE <<>>)
    \o (IF method = "describe_table" THEN <<"t1">> ELSE <<>>)

\* C16: in the MySQL adapter each call of list_tables and of describe_table
\* sends its catalog query to the backend exactly once, with the parameters
\* of the resolved schema bound, whether or not a schema is given: never a
\* second statement during the call, and exactly one bound statement once
\* the call is over.
C16_CatalogQueryOnce ==
  \A c \in Callers :
    callers[c].method \in {"list_tables", "describe_table"} =>
      /\ Len(wire[c]) <= 1
      /\ \A i \in 1..Len(wire[c]) :
           wire[c][i].params = ResolvedParams(callers[c].method, callers[c].schema)
      /\ callers[c].pc \in {"returned", "raised"} =>
           /\ Len(wire[c]) = 1
           /\ callers[c].pc = "returned"

\* the callers whose execute_query holds a connection and awaits its query
Running == {c \in Callers : callers[c].pc = "running"}

\* C18: a round-robin pool has 5 connections and cursor 0 when it is
\* created and is never resized; the cursor is always in 0..4; the i-th
\* acquisition returns the connection at the cursor and advances it by one
\* modulo the pool size, so any 5 consecutive acquisitions return each of
\* the 5 connections exactly once.
C18_RoundRobin ==
  /\ rrpool = NoPool => acquired = <<>>
  /\ rrpool # NoPool =>
       /\ rrpool.size = 5
       /\ rrpool.current \in 0..4
       /\ rrpool.current = Len(acquired) % rrpool.size
       /\ \A i \in 1..Len(acquired) : acquired[i] = (i - 1) % rrpool.size
       /\ \A i \in 1..Len(acquired) :
            i + 4 <= Len(acquired) =>
              /\ {acquired[j] : j \in i..(i + 4)} = 0..4
              /\ \A j, k \in i..(i + 4) : acquired[j] = acquired[k] => j = k

\* a pool whose cursor has wrapped around: six acquisitions, the sixth
\* returning connection 0 again
C18_Witness ==
  /\ rrpool # NoPool
  /\ Len(acquired) = 6
  /\ acquired[6] = 0
  /\ rrpool.current = 1

\* C19 as stated: when two callers acquire one right after the other, the
\* first still awaiting its query, an update of the cursor is lost: both
\* got the same index, or the cursor moved by one for the two.
C19_LostUpdateOnRace ==
  \A c, d \in Running :
    (callers[d].at = callers[c].at + 1 /\ Len(acquired) = callers[d].at) =>
      \/ callers[c].conn = callers[d].conn
      \/ rrpool.current = (callers[c].conn + 1) % rrpool.size

\* C19 amended: the cursor is shared by all callers without a guard, but
\* an acquisition reads and advances it without a suspension point, so no
\* update is lost: every acquisition got the index its position in the
\* order of acquisitions determines, the cursor counts all of them, and
\* two concurrent callers fewer than 5 acquisitions apart hold different
\* connections.
C19_NoLostUpdate ==
  /\ rrpool # NoPool => rrpool.current = Len(acquired) % PoolSize
  /\ \A c \in Running :
       /\ callers[c].at \in 1..Len(acquired)
       /\ callers[c].conn = (callers[c].at - 1) % PoolSize
       /\ acquired[callers[c].at] = callers[c].conn
  /\ \A c, d \in Running :
       c # d =>
         /\ callers[c].at # callers[d].at
         /\ (callers[c].at < callers[d].at /\ callers[d].at - callers[c].at < PoolSize) =>
              callers[c].conn # callers[d].conn

\* two callers acquired one right after the other and both still await
\* their queries: they hold connections 0 and 1 and the cursor is at 2
C19_Witness ==
  \E c, d \in Running :
    /\ callers[c].at = 1 /\ callers[d].at = 2
    /\ callers[c].conn = 0 /\ callers[d].conn = 1
    /\ rrpool.current = 2

\* task t runs the checks of _ensure_connection (src/server.py:192-199) in
\* this step: its load has just returned without raising
EnsureLooks(t) ==
  /\ tasks[t].pc \in {"idle", "spawned", "load_connect"}
  /\ tasks'[t] # tasks[t]
  /\ tasks'[t].pc \notin {"spawned", "load_connect"}
  /\ OpAfter(t) \in EnsureOps
  /\ Starts(t) => read_config(file).ok

\* the name task t works on (it stays in the task until the task ends)
EnsureName(t) == IF tasks'[t].pc = "retired" THEN last'.db ELSE tasks'[t].db

\* C17: when _ensure_connection looks for a configured name that has a
\* live pool, it goes on with exactly the pool handle and the adapter the
\* two tables hold for that name and awaits no connect for it; if the name
\* had its pool before this step and the step was not the return of this
\* task's own preconnect of that name, the name's entries in both tables
\* are what they were and no pool was created for the name. Operations on
\* the name therefore get the same handle for as long as the entry stays.
C17_EnsureReusesCachedPool ==
  [][\A t \in Tasks :
       (/\ EnsureLooks(t)
        /\ Has(config', EnsureName(t))
        /\ Has(connections', EnsureName(t))) =>
         LET n == EnsureName(t)
         IN /\ tasks'[t].pc = "exec"
            /\ tasks'[t].pool = Get(connections', n).pool
            /\ tasks'[t].adp = Get(adapters', n).adapter
            /\ (Has(connections, n) /\ ~(tasks[t].pc = "load_connect" /\ tasks[t].cur.name = n)) =>
                 /\ Get(connections', n) = Get(connections, n)
                 /\ Get(adapters', n) = Get(adapters, n)
                 /\ \A p \in (Len(pools) + 1)..Len(pools') : pools'[p].name # n]_vars

\* two operations on the same connected name are at their adapter call with
\* the one pool that was ever created for the name
C17_Witness ==
  \E t, u \in Tasks :
    /\ t # u
    /\ tasks[t].pc = "exec" /\ tasks[u].pc = "exec"
    /\ tasks[t].db = tasks[u].db
    /\ tasks[t].pool = tasks[u].pool
    /\ Has(connections, tasks[t].db)
    /\ Get(connections, tasks[t].db).pool = tasks[t].pool
    /\ Cardinality({p \in 1..Len(pools) : pools[p].name = tasks[t].db}) = 1

\* the pool handles the live-pool table holds
Cached(conns) == {conns[i].pool : i \in 1..Len(conns)}

\* C20: adapter.close is called at most once on any pool handle; a handle
\* leaves the live-pool table only when its close has completed; and no
\* operation goes on to its adapter call with a handle on which close has
\* already been called.
C20_CloseOnceThenDiscard ==
  [][/\ \A p \in 1..Len(pools') : pools'[p].closeCalls <= 1
     /\ \A p \in Cached(connections) \ Cached(connections') : pools'[p].state = "closed"
     /\ \A t \in Tasks :
          (tasks'[t].pc = "exec" /\ tasks[t].pc # "exec") =>
            pools'[tasks'[t].pool].closeCalls = 0]_vars

\* C23: in every state between two runs of the event loop (so at every
\* suspension point and after every ensure, preconnect, cleanup and failed
\* connect) self.connections and self.adapters have the same keys, in the
\* same order.
C23_TablesSameKeys ==
  /\ KeySet(connections) = KeySet(adapters)
  /\ Keys(connections) = Keys(adapters)

\* a connect has failed for one name, another name is in both tables, and a
\* cleanup is suspended in the close of a pool
C23_Witness ==
  /\ failed # {}
  /\ \E n \in Names : n \notin failed /\ Has(connections, n) /\ Has(adapters, n)
  /\ \E t \in Tasks : tasks[t].pc = "closing"

\* C25: in every list_databases response the "connected" field is the
\* number of listed databases whose status is "connected", and so is at
\* most "count".
C25_ConnectedCountsListed ==
  (last.op = "list_databases" /\ last.out.kind = "return") =>
    LET body == last.out.body
        dbs == body.databases
    IN /\ body.connected =
            Cardinality({i \in 1..Len(dbs) : dbs[i].status = "connected"})
       /\ body.connected <= body.count

\* C24: whenever an operation goes on to its adapter call for a name the
\* configuration holds, the pool and the adapter it uses are those of the
\* backend type the configuration now assigns to the name.
C24_PoolOfConfiguredType ==
  [][\A t \in Tasks :
       (/\ tasks'[t].pc = "exec" /\ tasks[t].pc # "exec"
        /\ Has(config', tasks'[t].db)) =>
         LET type == Get(config', tasks'[t].db).type
         IN /\ pools'[tasks'[t].pool].type = type
            /\ tasks'[t].adp = get_adapter(lower(type))]_vars

\* the installed drivers that are in the preference list
InstalledPreferred == {i \in 1..Len(preferred) : preferred[i] \in SeqRange(odbc.installed)}

\* C22: once SQLServerAdapter.connect has looked at the installed drivers,
\* its driver is the first of ODBC Driver 18, 17, 13, SQL Server Native
\* Client 11.0 that is installed; if none of them is, the first installed
\* driver; and if no driver is installed it has raised with no connection
\* opened.
C22_DriverChoice ==
  odbc.pc # "idle" =>
    /\ preferred = <<"ODBC Driver 18 for SQL Server", "ODBC Driver 17 for SQL Server",
                     "ODBC Driver 13 for SQL Server", "SQL Server Native Client 11.0">>
    /\ \A i \in InstalledPreferred :
         (\A j \in InstalledPreferred : i <= j) => odbc.driver = preferred[i]
    /\ (InstalledPreferred = {} /\ odbc.installed # <<>>) => odbc.driver = odbc.installed[1]
    /\ odbc.installed = <<>> =>
         /\ odbc.pc = "raised" /\ odbc.driver = NoDriver
         /\ odbc.opened = 0 /\ rrpool = NoPool
    /\ odbc.installed # <<>> => odbc.driver \in SeqRange(odbc.installed)

\* a connect that found ODBC Driver 17 listed after an unlisted driver and
\* after Native Client 11.0, chose it, and opened its connections
C22_Witness ==
  /\ odbc.pc = "connected"
  /\ odbc.installed = <<"FreeTDS", "SQL Server Native Client 11.0",
                        "ODBC Driver 17 for SQL Server">>
  /\ odbc.driver = "ODBC Driver 17 for SQL Server"

\* C26: in a round-robin pool no connection is used by two operations that
\* are in flight at the same time.
C26_NoSharedConnection ==
  \A c, d \in Running : c # d => callers[c].conn # callers[d].conn

\* C21: if every backend connect and query call returns or fails in the
\* end, a query_multiple_databases that is waiting for its per-name queries
\* returns in the end, and so does each of its per-name queries; and it
\* never returns while one of them has not settled, so a per-name query
\* that never settles keeps the fan-out waiting for ever.
C21_FanOutTerminates ==
  /\ \A t \in Tasks : (tasks[t].pc = "gather") ~> (tasks[t].pc = "retired")
  /\ \A t \in Tasks : (tasks[t].via = "gather" /\ tasks[t].pc # "done") ~>
                          (tasks[t].pc \in {"done", "retired"})
  /\ [][\A t \in Tasks :
          (tasks[t].pc = "gather" /\ tasks'[t].pc # "gather") =>
            /\ \A u \in Kids(t) : tasks[u].pc = "done"
            /\ Cardinality(Kids(t)) = Len(tasks[t].names)
            /\ tasks'[t].pc = "retired"
            /\ last'.op = "query_multiple_databases"
            /\ last'.out.kind = "return"]_vars

\* a fan-out over two names waits: the query of one name has settled, the
\* query of the other is still with its backend
C21_Witness ==
  \E t \in Tasks :
    /\ tasks[t].pc = "gather"
    /\ Len(tasks[t].names) = 2
    /\ \E u, v \in Kids(t) : tasks[u].pc = "done" /\ tasks[v].pc = "exec"
====
